---- MODULE Spec2Model ----
(***************************************************************************)
(* Model of sandbox/sandbox_api.py: the FastAPI handler run_code, the      *)
(* runner _run_in_firejail, the permit pool POOL (an asyncio.Semaphore),   *)
(* the workspace directories under /dev/shm and the sandboxed processes.   *)
(*                                                                         *)
(* Each request slot r is one invocation of run_code; pc[r] is the line    *)
(* the handler is at.  Python strings are sequences of code points, bytes  *)
(* are sequences of 0..255, and an Optional value is a sequence of length  *)
(* at most one (<<>> is None).                                             *)
(***************************************************************************)
EXTENDS Integers, Sequences, FiniteSets, TLC

\* ---------------------------------------------------------------- bounds
\* Number of request slots (handlers that can be in flight at once).
NReq == 2
\* Permits of POOL.  The source constructs Semaphore(200); the model uses a
\* small capacity so that requests do queue at the gate.
Capacity == 1
\* Number of distinct directory names mkdtemp can draw from.
MaxDirs == 2

Requests == 1..NReq
DirNames == 1..MaxDirs

\* ------------------------------------------------------------ data types
None == <<>>
Some(x) == <<x>>

\* RunStatus (lines 51-57) and CommandRunStatus (lines 60-63)
RunStatus == {"Success", "Failed", "SandboxError"}
CommandRunStatus == {"Finished", "Error", "TimeLimitExceeded"}

\* req.language values tried by the model
Languages == {"python", "bash"}

\* proc.returncode of a process that ended by itself (success, failure),
\* and the negative code asyncio reports for one ended by SIGKILL.
ExitCodes == {0, 1}
SigKillCode == 0 - 9

\* What the process wrote to <<stdout, stderr>> (bytes).  <<53>> is b"5",
\* <<195, 169>> is a two-byte UTF-8 sequence, <<255>> is not valid UTF-8.
NoOutput == << <<>>, <<>> >>
Outputs == { << <<53, 195, 169>>, <<69>> >>,
             << <<53>>, <<255>> >> }

\* "Timeout\n" (line 148)
TimeoutMessage == <<84, 105, 109, 101, 111, 117, 116, 10>>

\* bytes.decode() (lines 161-162), UTF-8 strict, for one- and two-byte
\* sequences: ok is FALSE where Python raises UnicodeDecodeError.
RECURSIVE Utf8Decode(_)
Utf8Decode(b) ==
    IF b = <<>> THEN [ok |-> TRUE, text |-> <<>>]
    ELSE IF b[1] < 128 THEN
        LET r == Utf8Decode(Tail(b))
        IN  [ok |-> r.ok, text |-> IF r.ok THEN <<b[1]>> \o r.text ELSE <<>>]
    ELSE IF b[1] >= 194 /\ b[1] <= 223 /\ Len(b) >= 2
            /\ b[2] >= 128 /\ b[2] <= 191 THEN
        LET r == Utf8Decode(Tail(Tail(b)))
        IN  [ok |-> r.ok,
             text |-> IF r.ok
                      THEN <<(b[1] - 192) * 64 + (b[2] - 128)>> \o r.text
                      ELSE <<>>]
    ELSE [ok |-> FALSE, text |-> <<>>]

\* str.encode() (line 135), UTF-8, for code points below 2048.
RECURSIVE Utf8Encode(_)
Utf8Encode(s) ==
    IF s = <<>> THEN <<>>
    ELSE IF s[1] < 128 THEN <<s[1]>> \o Utf8Encode(Tail(s))
    ELSE <<192 + (s[1] \div 64), 128 + (s[1] % 64)>> \o Utf8Encode(Tail(s))

\* req.stdin values tried by the model: "", "5" and a text with a code
\* point that takes two bytes; the default is "" (line 74).
DefaultStdin == <<>>
Stdins == {<<>>, <<53>>, <<233, 53>>}

\* req.run_timeout values tried by the model, in seconds; the default is
\* 3.0 (line 78).
DefaultRunTimeout == 3
RunTimeouts == {0 - 1, 0, 3}

\* Line 135: the input handed to communicate(), None for an empty stdin.
InputBytes(s) == IF Len(s) > 0 THEN Some(Utf8Encode(s \o <<10>>)) ELSE None

\* CommandRunResult (lines 65-70); every field but status is Optional.
NoRunResult ==
    [status |-> "", execution_time |-> None, return_code |-> None,
     stdout |-> None, stderr |-> None]

\* The value _run_in_firejail returns: (RunStatus, run result)
NoReturn == [status |-> "", result |-> NoRunResult]

\* What the client gets: nothing yet, a RunCodeResponse, the HTTPException
\* of line 177, or an exception that left run_code (HTTP 500).
NoResponse == [kind |-> "none", status |-> "", run_result |-> NoRunResult]
Http400 == [kind |-> "http400", status |-> "", run_result |-> NoRunResult]
Http500 == [kind |-> "http500", status |-> "", run_result |-> NoRunResult]

VARIABLES
    pc,         \* pc[r]: where handler r is
    lang,       \* lang[r]: req.language
    stdin,      \* stdin[r]: req.stdin
    run_timeout,\* run_timeout[r]: req.run_timeout
    value,      \* POOL._value
    waiters,    \* POOL._waiters, in order
    woken,      \* waiters whose future has a result set
    dirs,       \* directories existing under /dev/shm
    workdir,    \* workdir[r]: Optional directory of r
    proc,       \* proc[r]: "none", "alive", "exited"
    killed,     \* killed[r]: SIGKILL was sent to proc[r]
    returncode, \* returncode[r]: proc.returncode
    output,     \* output[r]: <<stdout, stderr>> bytes written by the process
    desc,       \* desc[r]: a process started by proc[r] is alive
    sent,       \* sent[r]: bytes written to the stdin pipe of proc[r]
    closed,     \* closed[r]: the handler closed the stdin pipe of proc[r]
    ret,        \* ret[r]: value returned by _run_in_firejail
    exc,        \* exc[r]: the call whose exception is leaving
                \* _run_in_firejail, "" if none
    timedout,   \* timedout[r]: wait_for raised asyncio.TimeoutError
    resp,       \* resp[r]: what the client got
    acquired,   \* acquired[r]: permits r obtained from POOL
    released,   \* released[r]: times r released POOL
    created,    \* created[r]: directories r created
    removed     \* removed[r]: directories r removed

vars == <<pc, lang, stdin, run_timeout, value, waiters, woken, dirs, workdir,
          proc, killed, returncode, output, desc, sent, closed, ret, exc,
          timedout, resp, acquired, released, created, removed>>

reqVars == <<lang, stdin, run_timeout>>
pipeVars == <<sent, closed>>

gateVars == <<value, waiters, woken>>
procVars == <<proc, killed, returncode, output, desc>>
histVars == <<acquired, released, created, removed>>

Init ==
    /\ pc = [r \in Requests |-> "idle"]
    /\ lang = [r \in Requests |-> "python"]
    /\ stdin = [r \in Requests |-> DefaultStdin]
    /\ run_timeout = [r \in Requests |-> DefaultRunTimeout]
    /\ value = Capacity
    /\ waiters = <<>>
    /\ woken = {}
    /\ dirs = {}
    /\ workdir = [r \in Requests |-> None]
    /\ proc = [r \in Requests |-> "none"]
    /\ killed = [r \in Requests |-> FALSE]
    /\ returncode = [r \in Requests |-> None]
    /\ output = [r \in Requests |-> NoOutput]
    /\ desc = [r \in Requests |-> FALSE]
    /\ sent = [r \in Requests |-> <<>>]
    /\ closed = [r \in Requests |-> FALSE]
    /\ ret = [r \in Requests |-> NoReturn]
    /\ exc = [r \in Requests |-> ""]
    /\ timedout = [r \in Requests |-> FALSE]
    /\ resp = [r \in Requests |-> NoResponse]
    /\ acquired = [r \in Requests |-> 0]
    /\ released = [r \in Requests |-> 0]
    /\ created = [r \in Requests |-> 0]
    /\ removed = [r \in Requests |-> 0]

\* ------------------------------------------------------- admission gate
\* asyncio.Semaphore as constructed on line 169 and entered on line 179.

\* Semaphore.locked(): no permit left, or somebody is already queued.
Locked == value = 0 \/ waiters # <<>>

\* The waiters whose future is not done yet, in queue order.
Unwoken(ws, wk) == SelectSeq(ws, LAMBDA w : w \notin wk)

\* Semaphore._wake_up_next(), repeated while a permit is free (the loop
\* that ends acquire()): hands free permits to the first waiters in order.
\* Yields the new <<_value, set of woken waiters>>.
RECURSIVE WakeUp(_, _, _, _)
WakeUp(v, ws, wk, once) ==
    IF v > 0 /\ Unwoken(ws, wk) # <<>>
    THEN IF once
         THEN <<v - 1, wk \cup {Head(Unwoken(ws, wk))}>>
         ELSE WakeUp(v - 1, ws, wk \cup {Head(Unwoken(ws, wk))}, once)
    ELSE <<v, wk>>

\* A release() that returns the permit but wakes nobody.
SemReleaseNoWake(v, ws, wk) == <<v + 1, wk>>

\* Semaphore.release(): _value += 1, then one _wake_up_next().
SemRelease(v, ws, wk) == WakeUp(v + 1, ws, wk, TRUE)

\* The requests that hold a permit: inside the async with block, or woken
\* in acquire() with the permit already taken out of _value for them.
InBlock ==
    {"mkdtemp", "write", "spawn", "feed", "communicate", "kill", "wait",
     "cleanup", "map", "result", "release"}
Holders == {r \in Requests : pc[r] \in InBlock} \cup woken

\* ------------------------------------------------------------- run_code

\* A request arrives (the HTTP layer builds RunCodeRequest, lines 72-79).
Receive(r) ==
    /\ pc[r] = "idle"
    /\ \E l \in Languages : lang' = [lang EXCEPT ![r] = l]
    /\ pc' = [pc EXCEPT ![r] = "check"]
    /\ UNCHANGED <<stdin, run_timeout, pipeVars, gateVars, dirs, workdir,
                   procVars, ret, exc, resp, timedout, histVars>>

\* A request arrives that gives stdin and run_timeout (lines 74, 78): the
\* fields are a str and a float with no constraint on their values.
ReceiveWithInput(r) ==
    /\ pc[r] = "idle"
    /\ lang' = [lang EXCEPT ![r] = "python"]
    /\ \E s \in Stdins : stdin' = [stdin EXCEPT ![r] = s]
    /\ \E t \in RunTimeouts : run_timeout' = [run_timeout EXCEPT ![r] = t]
    /\ pc' = [pc EXCEPT ![r] = "check"]
    /\ UNCHANGED <<pipeVars, gateVars, dirs, workdir, procVars, ret, exc,
                   resp, timedout, histVars>>

\* A handler without the language check: every request goes on to the gate.
CheckLanguageMissing(r) ==
    /\ pc[r] = "check"
    /\ pc' = [pc EXCEPT ![r] = "acquire"]
    /\ UNCHANGED <<reqVars, pipeVars, gateVars, dirs, workdir, procVars, ret,
                   exc, resp, timedout, histVars>>

\* Lines 176-177: the language check.
CheckLanguage(r) ==
    /\ pc[r] = "check"
    /\ IF lang[r] # "python"
       THEN /\ resp' = [resp EXCEPT ![r] = Http400]
            /\ pc' = [pc EXCEPT ![r] = "done"]
       ELSE /\ pc' = [pc EXCEPT ![r] = "acquire"]
            /\ UNCHANGED resp
    /\ UNCHANGED <<reqVars, pipeVars, gateVars, dirs, workdir, procVars, ret,
                   exc, timedout, histVars>>

\* Line 179, POOL.__aenter__ -> acquire(): take a permit if the semaphore
\* is not locked, else join the queue and suspend.
Acquire(r) ==
    /\ pc[r] = "acquire"
    /\ IF ~Locked
       THEN /\ value' = value - 1
            /\ acquired' = [acquired EXCEPT ![r] = @ + 1]
            /\ pc' = [pc EXCEPT ![r] = "mkdtemp"]
            /\ UNCHANGED waiters
       ELSE /\ waiters' = Append(waiters, r)
            /\ pc' = [pc EXCEPT ![r] = "waiting"]
            /\ UNCHANGED <<value, acquired>>
    /\ UNCHANGED <<reqVars, pipeVars, woken, dirs, workdir, procVars, ret, exc,
                   resp, timedout, released, created, removed>>

\* acquire() resumes after its future got a result: leave the queue, pass
\* on any permit that is free, and enter the block.
Resume(r) ==
    /\ pc[r] = "waiting"
    /\ r \in woken
    /\ LET ws == SelectSeq(waiters, LAMBDA w : w # r)
           g == WakeUp(value, ws, woken \ {r}, FALSE)
       IN  /\ waiters' = ws
           /\ value' = g[1]
           /\ woken' = g[2]
    /\ acquired' = [acquired EXCEPT ![r] = @ + 1]
    /\ pc' = [pc EXCEPT ![r] = "mkdtemp"]
    /\ UNCHANGED <<reqVars, pipeVars, dirs, workdir, procVars, ret, exc, resp,
                   timedout, released, created, removed>>

\* ----------------------------------------------------- _run_in_firejail

\* A name chosen without looking at the directories that exist.
AnyName(ds) == CHOOSE d \in DirNames : \A e \in DirNames : d <= e

\* The name mkdtemp settles on: one that no existing directory has.  Which
\* one is immaterial; the model takes the least.
FreshName(ds) == CHOOSE d \in DirNames \ ds : \A e \in DirNames \ ds : d <= e

\* Line 103, tempfile.mkdtemp: a directory with a name not in use, or an
\* OSError (no /dev/shm, no space, no name left).
MkDtemp(r) ==
    /\ pc[r] = "mkdtemp"
    /\ \/ /\ DirNames \ dirs # {}
          /\ LET d == FreshName(dirs)
             IN  /\ dirs' = dirs \cup {d}
                 /\ workdir' = [workdir EXCEPT ![r] = Some(d)]
          /\ created' = [created EXCEPT ![r] = @ + 1]
          /\ pc' = [pc EXCEPT ![r] = "write"]
          /\ UNCHANGED exc
       \/ /\ exc' = [exc EXCEPT ![r] = "mkdtemp"]
          /\ pc' = [pc EXCEPT ![r] = "release"]
          /\ UNCHANGED <<dirs, workdir, created>>
    /\ UNCHANGED <<reqVars, pipeVars, gateVars, procVars, ret, resp, timedout,
                   acquired, released, removed>>

\* Lines 104-105, src.write_text(code): writes main.py, or raises (OSError,
\* UnicodeEncodeError) and leaves _run_in_firejail.
WriteText(r) ==
    /\ pc[r] = "write"
    /\ \/ /\ pc' = [pc EXCEPT ![r] = "spawn"]
          /\ UNCHANGED exc
       \/ /\ exc' = [exc EXCEPT ![r] = "write_text"]
          /\ pc' = [pc EXCEPT ![r] = "release"]
    /\ UNCHANGED <<reqVars, pipeVars, gateVars, dirs, workdir, procVars, ret,
                   resp, timedout, histVars>>

\* Lines 125-132, asyncio.create_subprocess_exec: the firejail process
\* starts, or the call raises (FileNotFoundError, PermissionError).
Spawn(r) ==
    /\ pc[r] = "spawn"
    /\ \/ /\ proc' = [proc EXCEPT ![r] = "alive"]
          /\ pc' = [pc EXCEPT ![r] = "feed"]
          /\ UNCHANGED exc
       \/ /\ exc' = [exc EXCEPT ![r] = "create_subprocess_exec"]
          /\ pc' = [pc EXCEPT ![r] = "release"]
          /\ UNCHANGED proc
    /\ UNCHANGED <<reqVars, pipeVars, gateVars, dirs, workdir, killed,
                   returncode, output, desc, ret, resp, timedout, histVars>>

\* Lines 135-139, the start of wait_for(proc.communicate(input_bytes)): with
\* a positive timeout communicate() begins before the timer can expire; it
\* writes the input to the stdin pipe and closes the pipe, and when the
\* input is None it does neither.  With a timeout of zero or less wait_for
\* cancels communicate() before it has begun.
FeedStdin(r) ==
    /\ pc[r] = "feed"
    /\ IF run_timeout[r] > 0 /\ InputBytes(stdin[r]) # None
       THEN /\ sent' = [sent EXCEPT ![r] = InputBytes(stdin[r])[1]]
            /\ closed' = [closed EXCEPT ![r] = TRUE]
       ELSE UNCHANGED <<sent, closed>>
    /\ pc' = [pc EXCEPT ![r] = "communicate"]
    /\ UNCHANGED <<reqVars, gateVars, dirs, workdir, procVars, ret, exc, resp,
                   timedout, histVars>>

\* Lines 136-139, wait_for(proc.communicate()) returns: the process has
\* ended and its pipes are at end of file.  With a timeout of zero or less
\* wait_for never returns a result.
CommunicateReturn(r) ==
    /\ pc[r] = "communicate"
    /\ run_timeout[r] > 0
    /\ proc[r] = "exited"
    /\ pc' = [pc EXCEPT ![r] = "map"]
    /\ UNCHANGED <<reqVars, pipeVars, gateVars, dirs, workdir, procVars, ret,
                   exc, resp, timedout, histVars>>

\* Lines 136-141: the deadline passes before communicate() has returned;
\* wait_for raises asyncio.TimeoutError.
Timeout(r) ==
    /\ pc[r] = "communicate"
    /\ timedout' = [timedout EXCEPT ![r] = TRUE]
    /\ pc' = [pc EXCEPT ![r] = "kill"]
    /\ UNCHANGED <<reqVars, pipeVars, gateVars, dirs, workdir, procVars, ret,
                   exc, resp, histVars>>

\* A timeout path that does not kill: it only waits for the process.
KillNotSent(r) ==
    /\ pc[r] = "kill"
    /\ pc' = [pc EXCEPT ![r] = "wait"]
    /\ UNCHANGED <<reqVars, pipeVars, gateVars, dirs, workdir, procVars, ret,
                   exc, resp, timedout, histVars>>

\* A timeout path that sends SIGKILL and goes on to the cleanup at once.
KillWithoutWait(r) ==
    /\ pc[r] = "kill"
    /\ killed' = [killed EXCEPT ![r] = (proc[r] = "alive")]
    /\ pc' = [pc EXCEPT ![r] = "cleanup"]
    /\ UNCHANGED <<reqVars, pipeVars, gateVars, dirs, workdir, proc,
                   returncode, output, desc, ret, exc, resp, timedout,
                   histVars>>

\* Line 142, proc.kill(): SIGKILL to the launched process, and to that
\* process only.  When the process has ended already, the call does nothing
\* while the subprocess transport is still open, and raises
\* ProcessLookupError once the transport has been closed; raised inside the
\* except block, that exception leaves _run_in_firejail.
Kill(r) ==
    /\ pc[r] = "kill"
    /\ \/ /\ proc[r] = "alive"
          /\ killed' = [killed EXCEPT ![r] = TRUE]
          /\ pc' = [pc EXCEPT ![r] = "wait"]
          /\ UNCHANGED exc
       \/ /\ proc[r] = "exited"
          /\ pc' = [pc EXCEPT ![r] = "wait"]
          /\ UNCHANGED <<killed, exc>>
       \/ /\ proc[r] = "exited"
          /\ exc' = [exc EXCEPT ![r] = "kill"]
          /\ pc' = [pc EXCEPT ![r] = "release"]
          /\ UNCHANGED killed
    /\ UNCHANGED <<reqVars, pipeVars, gateVars, dirs, workdir, proc,
                   returncode, output, desc, ret, resp, timedout, histVars>>

\* A timeout path without the await of line 143: it goes on to the cleanup
\* whether or not the process has ended.
WaitSkipped(r) ==
    /\ pc[r] = "wait"
    /\ pc' = [pc EXCEPT ![r] = "cleanup"]
    /\ UNCHANGED <<reqVars, pipeVars, gateVars, dirs, workdir, procVars, ret,
                   exc, resp, timedout, histVars>>

\* Line 143, await proc.wait(): returns once the launched process ended.
Wait(r) ==
    /\ pc[r] = "wait"
    /\ proc[r] = "exited"
    /\ pc' = [pc EXCEPT ![r] = "cleanup"]
    /\ UNCHANGED <<reqVars, pipeVars, gateVars, dirs, workdir, procVars, ret,
                   exc, resp, timedout, histVars>>

\* shutil.rmtree(workdir, ignore_errors=True) (lines 144 and 155): the
\* directory is removed, or removal fails and the error is ignored.
Rmtree(ds, w, ok) == IF ok /\ w # None THEN ds \ {w[1]} ELSE ds

\* The dict returned on lines 145-149, as RunCodeResponse validates it into
\* a CommandRunResult (line 186): absent fields are None.
TimeoutResult ==
    [status |-> "TimeLimitExceeded", execution_time |-> None,
     return_code |-> None, stdout |-> Some(<<>>),
     stderr |-> Some(TimeoutMessage)]

\* Lines 144-149: remove the workspace and return the timeout outcome.
TimeoutCleanup(r) ==
    /\ pc[r] = "cleanup"
    /\ \E ok \in BOOLEAN :
          /\ dirs' = Rmtree(dirs, workdir[r], ok)
          /\ removed' = [removed EXCEPT ![r] = IF ok THEN @ + 1 ELSE @]
    /\ ret' = [ret EXCEPT ![r] = [status |-> "Failed",
                                  result |-> TimeoutResult]]
    /\ pc' = [pc EXCEPT ![r] = "release"]
    /\ UNCHANGED <<reqVars, pipeVars, gateVars, workdir, procVars, exc, resp,
                   timedout, acquired, released, created>>

\* Lines 151-152: the outcome of a process that ended with return code c.
CommandStatusOf(c) == IF c = 0 THEN "Finished" ELSE "Error"
StatusOf(c) == IF c = 0 THEN "Success" ELSE "Failed"

\* The exit path with rmtree called without ignore_errors: a failed removal
\* raises and leaves _run_in_firejail.
ExitCleanupRaising(r) ==
    /\ pc[r] = "map"
    /\ \/ /\ dirs' = Rmtree(dirs, workdir[r], TRUE)
          /\ removed' = [removed EXCEPT ![r] = @ + 1]
          /\ ret' = [ret EXCEPT ![r].status = StatusOf(returncode[r][1])]
          /\ pc' = [pc EXCEPT ![r] = "result"]
          /\ UNCHANGED exc
       \/ /\ exc' = [exc EXCEPT ![r] = "rmtree"]
          /\ pc' = [pc EXCEPT ![r] = "release"]
          /\ UNCHANGED <<dirs, removed, ret>>
    /\ UNCHANGED <<reqVars, pipeVars, gateVars, workdir, procVars, resp,
                   timedout, acquired, released, created>>

\* Lines 151-155: map the return code and remove the workspace.
ExitCleanup(r) ==
    /\ pc[r] = "map"
    /\ \E ok \in BOOLEAN :
          /\ dirs' = Rmtree(dirs, workdir[r], ok)
          /\ removed' = [removed EXCEPT ![r] = IF ok THEN @ + 1 ELSE @]
    /\ ret' = [ret EXCEPT ![r].status = StatusOf(returncode[r][1])]
    /\ pc' = [pc EXCEPT ![r] = "result"]
    /\ UNCHANGED <<reqVars, pipeVars, gateVars, workdir, procVars, exc, resp,
                   timedout, acquired, released, created>>

\* Lines 157-163: the CommandRunResult of a process that ended with return
\* code c, stdout out and stderr err already decoded.
ExitResult(c, out, err) ==
    [status |-> CommandStatusOf(c), execution_time |-> Some(0),
     return_code |-> Some(c), stdout |-> Some(out), stderr |-> Some(err)]

\* Lines 157-163: decode the output and return, or raise
\* UnicodeDecodeError.
Result(r) ==
    /\ pc[r] = "result"
    /\ LET out == Utf8Decode(output[r][1])
           err == Utf8Decode(output[r][2])
       IN  IF out.ok /\ err.ok
           THEN /\ ret' = [ret EXCEPT ![r].result =
                              ExitResult(returncode[r][1], out.text, err.text)]
                /\ UNCHANGED exc
           ELSE /\ exc' = [exc EXCEPT ![r] = "decode"]
                /\ ret' = [ret EXCEPT ![r] = NoReturn]
    /\ pc' = [pc EXCEPT ![r] = "release"]
    /\ UNCHANGED <<reqVars, pipeVars, gateVars, dirs, workdir, procVars, resp,
                   timedout, histVars>>

\* ------------------------------------------------- run_code, continued

\* A handler that pairs acquire() with a release() placed after the call,
\* without the scoped release of async with: an exception skips release().
ReleaseOnReturnOnly(r) ==
    /\ pc[r] = "release"
    /\ IF exc[r] # ""
       THEN /\ resp' = [resp EXCEPT ![r] = Http500]
            /\ pc' = [pc EXCEPT ![r] = "done"]
            /\ UNCHANGED <<value, woken, released>>
       ELSE /\ LET g == SemRelease(value, waiters, woken)
               IN  /\ value' = g[1]
                   /\ woken' = g[2]
            /\ released' = [released EXCEPT ![r] = @ + 1]
            /\ pc' = [pc EXCEPT ![r] = "respond"]
            /\ UNCHANGED resp
    /\ UNCHANGED <<reqVars, pipeVars, waiters, dirs, workdir, procVars, ret,
                   exc, timedout, acquired, created, removed>>

\* Line 179-180, POOL.__aexit__ -> release(), on return and on exception
\* alike.  An exception then leaves run_code: the client gets HTTP 500.
Release(r) ==
    /\ pc[r] = "release"
    /\ LET g == SemRelease(value, waiters, woken)
       IN  /\ value' = g[1]
           /\ woken' = g[2]
    /\ released' = [released EXCEPT ![r] = @ + 1]
    /\ IF exc[r] # ""
       THEN /\ resp' = [resp EXCEPT ![r] = Http500]
            /\ pc' = [pc EXCEPT ![r] = "done"]
       ELSE /\ pc' = [pc EXCEPT ![r] = "respond"]
            /\ UNCHANGED resp
    /\ UNCHANGED <<reqVars, pipeVars, waiters, dirs, workdir, procVars, ret,
                   exc, timedout, acquired, created, removed>>

\* Lines 182-190: the RunCodeResponse built from what the runner returned.
ResponseOf(rt) ==
    [kind |-> "response", status |-> rt.status, run_result |-> rt.result]

Respond(r) ==
    /\ pc[r] = "respond"
    /\ resp' = [resp EXCEPT ![r] = ResponseOf(ret[r])]
    /\ ret' = [ret EXCEPT ![r] = NoReturn]
    /\ pc' = [pc EXCEPT ![r] = "done"]
    /\ UNCHANGED <<reqVars, pipeVars, gateVars, dirs, workdir, procVars, exc,
                   timedout, histVars>>

\* The handler task is over and its locals are gone; the slot can take the
\* next request.  The model tracks one descendant per slot, so the slot is
\* reused only after a descendant that outlived the request has ended.
Close(r) ==
    /\ pc[r] = "done"
    /\ ~desc[r]
    /\ pc' = [pc EXCEPT ![r] = "idle"]
    /\ lang' = [lang EXCEPT ![r] = "python"]
    /\ stdin' = [stdin EXCEPT ![r] = DefaultStdin]
    /\ run_timeout' = [run_timeout EXCEPT ![r] = DefaultRunTimeout]
    /\ sent' = [sent EXCEPT ![r] = <<>>]
    /\ closed' = [closed EXCEPT ![r] = FALSE]
    /\ workdir' = [workdir EXCEPT ![r] = None]
    /\ proc' = [proc EXCEPT ![r] = "none"]
    /\ killed' = [killed EXCEPT ![r] = FALSE]
    /\ returncode' = [returncode EXCEPT ![r] = None]
    /\ output' = [output EXCEPT ![r] = NoOutput]
    /\ UNCHANGED desc
    /\ ret' = [ret EXCEPT ![r] = NoReturn]
    /\ exc' = [exc EXCEPT ![r] = ""]
    /\ timedout' = [timedout EXCEPT ![r] = FALSE]
    /\ resp' = [resp EXCEPT ![r] = NoResponse]
    /\ acquired' = [acquired EXCEPT ![r] = 0]
    /\ released' = [released EXCEPT ![r] = 0]
    /\ created' = [created EXCEPT ![r] = 0]
    /\ removed' = [removed EXCEPT ![r] = 0]
    /\ UNCHANGED <<gateVars, dirs>>

\* ------------------------------------------------- the sandboxed processes
\* The command of lines 108-117: firejail, which starts python3 main.py.

\* The launched process starts a process of its own.
DescStart(r) ==
    /\ proc[r] = "alive"
    /\ ~desc[r]
    /\ desc' = [desc EXCEPT ![r] = TRUE]
    /\ UNCHANGED <<pc, reqVars, pipeVars, gateVars, dirs, workdir, proc,
                   killed, returncode, output, ret, exc, resp, timedout,
                   histVars>>

\* A descendant process ends.
DescExit(r) ==
    /\ desc[r]
    /\ desc' = [desc EXCEPT ![r] = FALSE]
    /\ UNCHANGED <<pc, reqVars, pipeVars, gateVars, dirs, workdir, proc,
                   killed, returncode, output, ret, exc, resp, timedout,
                   histVars>>

\* The process writes to its stdout and stderr pipes.
ProcWrite(r) ==
    /\ proc[r] = "alive"
    /\ ~killed[r]
    /\ output[r] = NoOutput
    /\ \E o \in Outputs : output' = [output EXCEPT ![r] = o]
    /\ UNCHANGED <<pc, reqVars, pipeVars, gateVars, dirs, workdir, proc,
                   killed, returncode, desc, ret, exc, resp, timedout,
                   histVars>>

\* The launched process ends by itself with some return code: firejail
\* returns once the program it started has ended.
ProcExit(r) ==
    /\ proc[r] = "alive"
    /\ ~killed[r]
    /\ ~desc[r]
    /\ proc' = [proc EXCEPT ![r] = "exited"]
    /\ \E c \in ExitCodes : returncode' = [returncode EXCEPT ![r] = Some(c)]
    /\ UNCHANGED <<pc, reqVars, pipeVars, gateVars, dirs, workdir, killed,
                   output, desc, ret, exc, resp, timedout, histVars>>

\* The SIGKILL of line 142 ends the launched process.  Nothing in the
\* source signals the processes it started: the isolation tool may take
\* them down with it, or they live on.
ProcDie(r) ==
    /\ proc[r] = "alive"
    /\ killed[r]
    /\ proc' = [proc EXCEPT ![r] = "exited"]
    /\ returncode' = [returncode EXCEPT ![r] = Some(SigKillCode)]
    /\ \E survives \in BOOLEAN : desc' = [desc EXCEPT ![r] = @ /\ survives]
    /\ UNCHANGED <<pc, reqVars, pipeVars, gateVars, dirs, workdir, killed,
                   output, ret, exc, resp, timedout, histVars>>

\* ------------------------------------------------------- specification
Handler(r) ==
    \/ CheckLanguage(r) \/ Acquire(r) \/ Resume(r)
    \/ MkDtemp(r) \/ WriteText(r) \/ Spawn(r) \/ FeedStdin(r)
    \/ CommunicateReturn(r) \/ Timeout(r) \/ Kill(r) \/ Wait(r)
    \/ TimeoutCleanup(r) \/ ExitCleanup(r) \/ Result(r)
    \/ Release(r) \/ Respond(r)

Process(r) ==
    \/ DescStart(r) \/ DescExit(r) \/ ProcWrite(r) \/ ProcExit(r)
    \/ ProcDie(r)

Next ==
    \/ \E r \in Requests : Receive(r)
    \/ \E r \in Requests : Handler(r)
    \/ \E r \in Requests : Process(r)
    \/ \E r \in Requests : Close(r)

Spec == Init /\ [][Next]_vars

\* Scheduling: the event loop runs every handler that can take a step (a
\* ready coroutine, an expired wait_for timer), and a process that was sent
\* SIGKILL ends.  Nothing obliges clients to send requests or processes to
\* end by themselves.
Fairness ==
    \A r \in Requests : WF_vars(Handler(r)) /\ WF_vars(ProcDie(r))

FairSpec == Spec /\ Fairness

\* The same handlers, with requests that give stdin and run_timeout.
NextInputs == Next \/ \E r \in Requests : ReceiveWithInput(r)

SpecInputs == Init /\ [][NextInputs]_vars

\* The same handlers on a pool constructed with Capacity or Capacity + 1
\* permits: with the larger pool two executions are inside the block at
\* the same time.
InitPools ==
    \E n \in {Capacity, Capacity + 1} :
        /\ value = n
        /\ pc = [r \in Requests |-> "idle"]
        /\ lang = [r \in Requests |-> "python"]
        /\ stdin = [r \in Requests |-> DefaultStdin]
        /\ run_timeout = [r \in Requests |-> DefaultRunTimeout]
        /\ waiters = <<>>
        /\ woken = {}
        /\ dirs = {}
        /\ workdir = [r \in Requests |-> None]
        /\ proc = [r \in Requests |-> "none"]
        /\ killed = [r \in Requests |-> FALSE]
        /\ returncode = [r \in Requests |-> None]
        /\ output = [r \in Requests |-> NoOutput]
        /\ desc = [r \in Requests |-> FALSE]
        /\ sent = [r \in Requests |-> <<>>]
        /\ closed = [r \in Requests |-> FALSE]
        /\ ret = [r \in Requests |-> NoReturn]
        /\ exc = [r \in Requests |-> ""]
        /\ timedout = [r \in Requests |-> FALSE]
        /\ resp = [r \in Requests |-> NoResponse]
        /\ acquired = [r \in Requests |-> 0]
        /\ released = [r \in Requests |-> 0]
        /\ created = [r \in Requests |-> 0]
        /\ removed = [r \in Requests |-> 0]

SpecPools == InitPools /\ [][Next]_vars

\* ------------------------------------------------------------- claims

\* No request is being handled.
Quiescent == \A r \in Requests : pc[r] \in {"idle", "done"}

\* C1: every request with language "python", whatever its outcome (exit
\* code 0, non-zero exit, timeout, failure to write the source file, failure
\* to spawn), creates exactly one workspace directory, and that directory no
\* longer exists when the handling of the request has ended; with no
\* request in flight, no workspace directory exists.
C1_WorkspaceCreatedAndDestroyed ==
    /\ \A r \in Requests :
          (pc[r] = "done" /\ lang[r] = "python" /\ exc[r] # "mkdtemp") =>
             /\ created[r] = 1
             /\ workdir[r][1] \notin dirs
    /\ Quiescent => dirs = {}

\* C2: a request that acquired a permit releases it exactly once on every
\* exit path of run_code; each request inside the block accounts for one
\* permit and a request that left it for none, so the outstanding permits
\* are back at their earlier value once the request completes; the free
\* permits never exceed the capacity.
C2_PermitReleasedOnce ==
    /\ value >= 0 /\ value <= Capacity
    /\ value + Cardinality(Holders) = Capacity
    /\ \A r \in Requests :
          /\ pc[r] \in InBlock => acquired[r] = 1 /\ released[r] = 0
          /\ pc[r] \in {"respond", "done"} =>
                /\ acquired[r] <= 1
                /\ released[r] = acquired[r]
          /\ (pc[r] = "done" /\ lang[r] = "python") => released[r] = 1

\* Two requests are over, one after an exception raised while launching
\* and one after a timeout with a kill; each released once, and every
\* permit is free again.
C2_Witness ==
    /\ value = Capacity
    /\ \E r, q \in Requests :
          /\ pc[r] = "done" /\ exc[r] = "create_subprocess_exec"
          /\ acquired[r] = 1 /\ released[r] = 1
          /\ pc[q] = "done" /\ killed[q]
          /\ acquired[q] = 1 /\ released[q] = 1

\* The executions that have a process alive: the launched one, or one it
\* started.
Running == {r \in Requests : proc[r] = "alive" \/ desc[r]}

\* C3: under any interleaving of concurrent requests, the executions with a
\* sandboxed process alive (launched and not yet terminated, or descended
\* from a launched process) never number more than the gate capacity.
C3_RunningWithinCapacity == Cardinality(Running) <= Capacity

\* C4: where _run_in_firejail returns the TimeLimitExceeded outcome, no
\* process of that execution is alive: not the launched process and not a
\* process it started.
C4_NoProcessAfterTimeout ==
    \A r \in Requests :
        (pc[r] = "release" /\ ret[r].result.status = "TimeLimitExceeded") =>
            /\ proc[r] # "alive"
            /\ ~desc[r]

\* C5: a request whose process could not be spawned gets a response with
\* status SandboxError, and SandboxError is the status of no other request.
C5_LaunchFailureIsSandboxError ==
    \A r \in Requests :
        pc[r] = "done" =>
            /\ exc[r] = "create_subprocess_exec" =>
                  resp[r].kind = "response" /\ resp[r].status = "SandboxError"
            /\ resp[r].status = "SandboxError" =>
                  exc[r] = "create_subprocess_exec"

\* C6: every request that passed the language check ends with a response
\* whose status is Success, Failed or SandboxError; no fault inside the
\* engine leaves run_code as an exception.
C6_FaultsSurfaceInStatus ==
    \A r \in Requests :
        (pc[r] = "done" /\ lang[r] = "python") =>
            /\ resp[r].kind = "response"
            /\ resp[r].status \in RunStatus

\* C7: a request whose language is not "python" is rejected with the
\* client error before any sandbox work: it never waits at or holds the
\* gate, creates no workspace and spawns no process, and the steps of its
\* handler leave the gate and the set of workspaces as they were.
C7_UnsupportedLanguageRejected ==
    /\ [](\A r \in Requests :
            lang[r] # "python" =>
                /\ pc[r] \in {"check", "done"}
                /\ pc[r] = "done" => resp[r] = Http400
                /\ acquired[r] = 0 /\ released[r] = 0
                /\ created[r] = 0 /\ workdir[r] = None
                /\ proc[r] = "none" /\ ~desc[r]
                /\ r \notin Holders
                /\ \A i \in 1..Len(waiters) : waiters[i] # r)
    /\ [][\A r \in Requests :
            (lang[r] # "python" /\ pc'[r] # pc[r]) =>
                /\ value' = value /\ waiters' = waiters /\ woken' = woken
                /\ dirs' = dirs
                /\ proc' = proc]_vars

\* A request in another language has been rejected while another request
\* holds the only permit and has its workspace and process.
C7_Witness ==
    \E r, q \in Requests :
        /\ lang[r] # "python" /\ pc[r] = "done" /\ resp[r] = Http400
        /\ pc[q] = "communicate" /\ proc[q] = "alive"
        /\ value = Capacity - 1 /\ dirs # {}

\* C8: the response to a timed-out execution has status Failed and a run
\* result with status TimeLimitExceeded, empty stdout, the fixed message as
\* stderr and no return code, whatever the process wrote or returned before
\* the deadline.
C8_TimeoutResponse ==
    \A r \in Requests :
        (pc[r] = "done" /\ timedout[r]) =>
            /\ resp[r].kind = "response"
            /\ resp[r].status = "Failed"
            /\ resp[r].run_result.status = "TimeLimitExceeded"
            /\ resp[r].run_result.stdout = Some(<<>>)
            /\ resp[r].run_result.stderr = Some(TimeoutMessage)
            /\ resp[r].run_result.return_code = None

\* C9: an execution whose process ended before the deadline with return
\* code c gets a response: with status Success, run result Finished and
\* return code 0 if c = 0, with status Failed, run result Error and return
\* code c otherwise; and a response has status Success exactly if its run
\* result is Finished with return code 0.
C9_ExitCodeResponse ==
    \A r \in Requests :
        /\ (pc[r] = "done" /\ returncode[r] # None /\ ~timedout[r]) =>
              LET c == returncode[r][1]
                  rr == resp[r].run_result
              IN  /\ resp[r].kind = "response"
                  /\ rr.return_code = Some(c)
                  /\ c = 0 => resp[r].status = "Success"
                              /\ rr.status = "Finished"
                  /\ c # 0 => resp[r].status = "Failed"
                              /\ rr.status = "Error"
        /\ resp[r].kind = "response" =>
              (resp[r].status = "Success" <=>
                  /\ resp[r].run_result.status = "Finished"
                  /\ resp[r].run_result.return_code = Some(0))

\* The part of C9 that the code does satisfy: the same mapping, for the
\* requests that got a response at all.
C9_MappingOfResponses ==
    \A r \in Requests :
        /\ (resp[r].kind = "response" /\ ~timedout[r]) =>
              LET c == returncode[r][1]
                  rr == resp[r].run_result
              IN  /\ rr.return_code = Some(c)
                  /\ c = 0 => resp[r].status = "Success"
                              /\ rr.status = "Finished"
                  /\ c # 0 => resp[r].status = "Failed"
                              /\ rr.status = "Error"
        /\ resp[r].kind = "response" =>
              (resp[r].status = "Success" <=>
                  /\ resp[r].run_result.status = "Finished"
                  /\ resp[r].run_result.return_code = Some(0))

\* C10: under fair scheduling, every request suspended in the gate's
\* acquire is eventually admitted, holding a permit.
C10_QueuedEventuallyAdmitted ==
    \A r \in Requests : (pc[r] = "waiting") ~> (pc[r] = "mkdtemp")

\* A queued request has been handed the permit that a timed-out execution
\* released.
C10_Witness ==
    \E r, q \in Requests :
        /\ pc[r] = "waiting" /\ r \in woken
        /\ pc[q] \in {"respond", "done"} /\ timedout[q] /\ released[q] = 1

\* Request r is past a call of shutil.rmtree (line 144 or 155), and that
\* call left the directory in place.
RmtreeCalled(r) ==
    /\ proc[r] # "none"
    /\ exc[r] # "kill"
    /\ pc[r] \in {"result", "release", "respond", "done"}
RmtreeFailed(r) == RmtreeCalled(r) /\ removed[r] = 0

\* What request r is answered when its workspace was removed: determined
\* by the deadline, the return code and the output alone.
ResponseIfRemoved(r) ==
    IF timedout[r]
    THEN [kind |-> "response", status |-> "Failed",
          run_result |-> TimeoutResult]
    ELSE LET c == returncode[r][1]
             out == Utf8Decode(output[r][1])
             err == Utf8Decode(output[r][2])
         IN  IF out.ok /\ err.ok
             THEN [kind |-> "response",
                   status |-> IF c = 0 THEN "Success" ELSE "Failed",
                   run_result |-> ExitResult(c, out.text, err.text)]
             ELSE Http500

\* C11: releasing the workspace never raises and never changes the result:
\* when removal of the directory fails, no exception comes of it and the
\* request is answered exactly as it is when removal succeeds.
C11_CleanupFailureSwallowed ==
    \A r \in Requests :
        /\ RmtreeFailed(r) => exc[r] \in {"", "decode"}
        /\ (RmtreeCalled(r) /\ pc[r] = "done") =>
              resp[r] = ResponseIfRemoved(r)

\* Removal failed on the exit path and on the timeout path, the directories
\* are still there, and both requests have their responses.
C11_Witness ==
    \E r, q \in Requests :
        /\ pc[r] = "done" /\ RmtreeFailed(r) /\ ~timedout[r]
        /\ resp[r].status = "Success" /\ workdir[r][1] \in dirs
        /\ pc[q] = "done" /\ RmtreeFailed(q) /\ timedout[q]
        /\ resp[q].kind = "response" /\ workdir[q][1] \in dirs

C8_TimeoutResponsesAnswered ==
    \A r \in Requests :
        (resp[r].kind = "response" /\ timedout[r]) =>
            /\ resp[r].status = "Failed"
            /\ resp[r].run_result = TimeoutResult

\* The outcome of execution r as far as it is known: the run result that
\* _run_in_firejail returned, then the one in the response.
Outcome(r) ==
    IF resp[r].kind = "response" THEN resp[r].run_result ELSE ret[r].result

\* The deadline passed for r when its process had already ended by itself.
ExitRacedDeadline(r) == timedout[r] /\ ~killed[r] /\ proc[r] = "exited"

\* An outcome that is no mixture: the timeout outcome without a return
\* code, or the exit outcome with the return code the process had.
WholeOutcome(r, o) ==
    \/ o.status = "TimeLimitExceeded" /\ o.return_code = None
    \/ /\ returncode[r] # None
       /\ o.status = CommandStatusOf(returncode[r][1])
       /\ o.return_code = returncode[r]

\* The steps that keep an execution single-shot: a process is started only
\* where none was started before, no request with a process goes back to
\* the steps before the spawn, and an outcome once set stays as it is while
\* the request lasts.
SingleShotStep(r) ==
    /\ (proc'[r] = "alive" /\ proc[r] # "alive") => proc[r] = "none"
    /\ proc[r] # "none" =>
          pc'[r] \notin {"acquire", "mkdtemp", "write", "spawn"}
    /\ (Outcome(r).status # "" /\ pc'[r] # "idle") => Outcome(r)' = Outcome(r)

\* C14: each execution is single-shot: a request spawns at most one process
\* and is never retried, its outcome becomes one of Finished, Error and
\* TimeLimitExceeded and never changes afterwards; when the exit of the
\* process and the deadline race, the request ends with exactly one outcome
\* reported, the exit outcome with the observed return code or
\* TimeLimitExceeded without a return code, never a mixture.
C14_SingleShotOneOutcome ==
    /\ [](\A r \in Requests :
            /\ Outcome(r).status \in CommandRunStatus \cup {""}
            /\ Outcome(r).status # "" => WholeOutcome(r, Outcome(r))
            /\ (pc[r] = "done" /\ ExitRacedDeadline(r)) =>
                  /\ resp[r].kind = "response"
                  /\ resp[r].run_result.status \in CommandRunStatus)
    /\ [][\A r \in Requests : SingleShotStep(r)]_vars

\* The part of C14 that the code does satisfy: single-shot executions whose
\* outcome, where one is reported, is whole and final.
C14_OutcomeSetOnce ==
    /\ [](\A r \in Requests :
            /\ Outcome(r).status \in CommandRunStatus \cup {""}
            /\ Outcome(r).status # "" => WholeOutcome(r, Outcome(r)))
    /\ [][\A r \in Requests : SingleShotStep(r)]_vars

\* Request r holds a workspace: from mkdtemp until rmtree has removed it.
Owns(r) == workdir[r] # None /\ removed[r] = 0

\* A step of the handler of r touches nothing that belongs to another
\* request, and creates or removes no directory but the workspace of r.
OwnStateOnly(r) ==
    /\ \A q \in Requests \ {r} :
          /\ workdir'[q] = workdir[q] /\ proc'[q] = proc[q]
          /\ killed'[q] = killed[q] /\ returncode'[q] = returncode[q]
          /\ output'[q] = output[q] /\ sent'[q] = sent[q]
          /\ closed'[q] = closed[q] /\ ret'[q] = ret[q]
          /\ resp'[q] = resp[q]
    /\ \A d \in DirNames :
          ((d \in dirs) # (d \in dirs')) =>
              /\ workdir'[r] = Some(d)
              /\ d \in dirs => workdir[r] = Some(d) /\ removed[r] = 0

\* C15: concurrent executions share no mutable state but the permit pool:
\* no two requests hold the same workspace directory, the workspace of an
\* execution exists for as long as the execution uses it, and a step of one
\* request changes the workspace, process and results of no other request
\* and creates or removes no directory other than its own workspace.
C15_NothingShared ==
    /\ [](\A r, q \in Requests :
            (r # q /\ Owns(r) /\ Owns(q)) => workdir[r] # workdir[q])
    /\ [](\A r \in Requests :
            pc[r] \in {"write", "spawn", "feed", "communicate", "kill",
                       "wait", "cleanup", "map"} =>
                Owns(r) /\ workdir[r][1] \in dirs)
    /\ [][\A r \in Requests : pc'[r] # pc[r] => OwnStateOnly(r)]_vars

\* Two executions are inside the block together, each with its own
\* workspace and its own live process.
C15_Witness ==
    \E r, q \in Requests :
        /\ r # q
        /\ pc[r] = "communicate" /\ proc[r] = "alive" /\ Owns(r)
        /\ pc[q] = "communicate" /\ proc[q] = "alive" /\ Owns(q)
        /\ workdir[r] # workdir[q]
        /\ {workdir[r][1], workdir[q][1]} \subseteq dirs

\* Request r is past the start of communicate() with a positive timeout.
Fed(r) ==
    /\ proc[r] # "none"
    /\ run_timeout[r] > 0
    /\ pc[r] \in {"communicate", "kill", "wait", "cleanup", "map", "result",
                  "release", "respond", "done"}

\* C16: for every stdin text s of the request: if s is not empty, the bytes
\* sent to the process are exactly s followed by one newline; if s is
\* empty, no input is sent and the stdin of the process is closed without
\* data.
C16_StdinSent ==
    \A r \in Requests :
        Fed(r) =>
            IF stdin[r] # <<>>
            THEN sent[r] = Utf8Encode(stdin[r]) \o <<10>>
            ELSE sent[r] = <<>> /\ closed[r]

\* The part of C16 that the code does satisfy: a non-empty stdin is sent
\* followed by one newline and the pipe is closed after it, an empty stdin
\* sends nothing, and nothing is sent before communicate() has begun.
C16_StdinSentOrPipeLeftOpen ==
    \A r \in Requests :
        /\ (Fed(r) /\ stdin[r] # <<>>) =>
              sent[r] = Utf8Encode(stdin[r]) \o <<10>> /\ closed[r]
        /\ (Fed(r) /\ stdin[r] = <<>>) => sent[r] = <<>> /\ ~closed[r]
        /\ ~Fed(r) => sent[r] = <<>> /\ ~closed[r]

\* C17: every request that reaches the engine has run_timeout > 0: for a
\* request whose run_timeout is zero or negative no permit is taken, no
\* workspace is created and no process is launched.
C17_RunTimeoutPositive ==
    \A r \in Requests :
        run_timeout[r] <= 0 =>
            /\ pc[r] \notin InBlock
            /\ created[r] = 0
            /\ proc[r] = "none"

\* C18: a workspace directory is removed only after the process launched in
\* it has terminated: while the launched process is alive its workspace
\* exists, and a request that has removed its workspace has a process that
\* has ended, on the exit path and on the timeout path.
C18_RemovedAfterTermination ==
    \A r \in Requests :
        /\ proc[r] = "alive" =>
              /\ removed[r] = 0
              /\ workdir[r] # None /\ workdir[r][1] \in dirs
        /\ removed[r] > 0 => proc[r] = "exited" /\ returncode[r] # None

\* Two requests have removed their workspaces, one after its process ended
\* by itself and one after the deadline, the kill and the wait.
C18_Witness ==
    \E r, q \in Requests :
        /\ removed[r] = 1 /\ ~timedout[r] /\ proc[r] = "exited"
        /\ returncode[r] \in {Some(c) : c \in ExitCodes}
        /\ removed[q] = 1 /\ timedout[q] /\ killed[q]
        /\ returncode[q] = Some(SigKillCode)

====
